---- MODULE Spec2Model ----
(***************************************************************************)
(* Live-listing subsystem of snap-it (snap_it/apps/inventory).             *)
(*                                                                         *)
(* The datastore is modelled as a record db = [inventories, listings,      *)
(* liveInv, nextId]:                                                       *)
(*   inventories : inventory id -> owning merchant   (Inventory rows)      *)
(*   listings    : listing id  -> Listing row                              *)
(*   liveInv     : merchant    -> set of listing ids (LiveInventory rows   *)
(*                 with their many-to-many "listings" relation)            *)
(*   nextId      : next value of the Listing.listing_id AutoField          *)
(* Django runs in autocommit mode unless a transaction.atomic block is     *)
(* open, so every ORM write is committed when it returns; an exception     *)
(* raised afterwards does not undo it.  Inside transaction.atomic an       *)
(* exception leaving the block rolls the block's writes back.              *)
(* Operators that can raise return [db |-> .., exc |-> ..]; exc = "none"   *)
(* means a normal return.                                                  *)
(***************************************************************************)
EXTENDS Integers, Sequences, FiniteSets, TLC

\* ---------------------------------------------------------------- bounds
MaxInventories == 2
MaxListings == 2
MaxRows == 2

Merchants == {"m1", "m2"}
Items == {"x", "y"}
NoItem == "no_item"
NoInventory == 0
InventoryIds == 1..MaxInventories

\* last: what the most recent request did (its kind, target, the exception
\* it ended with, the datastore before it and, for bulk requests, its
\* counters); procs: the request handlers of the concurrent specification.
VARIABLES inventories, listings, liveInv, nextId, last, procs

\* The users app. userRole: the role column of the User rows, by user id;
\* customers: the users that have a Customer row; merchants: the
\* company_name of the Merchant rows, by user id; passwords: how many times
\* each user's password was replaced; tokens: the token pairs issued so far;
\* blacklist: the pairs whose refresh token is blacklisted; cache: the users
\* whose key user_logout_<id> is set; lastUser: what the most recent request
\* of the users app did.
VARIABLES userRole, customers, merchants, passwords, tokens, blacklist, cache, lastUser

invVars == <<inventories, listings, liveInv, nextId, last, procs>>

userVars == <<userRole, customers, merchants, passwords, tokens, blacklist, cache, lastUser>>

vars == <<inventories, listings, liveInv, nextId, last, procs,
          userRole, customers, merchants, passwords, tokens, blacklist, cache, lastUser>>

\* ------------------------------------------------------------ db helpers
Res(db, exc) == [db |-> db, exc |-> exc]

Min(S) == CHOOSE a \in S : \A b \in S : a <= b

CurrentDb == [inventories |-> inventories, listings |-> listings,
              liveInv |-> liveInv, nextId |-> nextId]

\* Listing row as stored (models.py 62-74); price and promo dates are kept
\* out of the stored row, only their validity at write time matters below.
Row(inventory, item, is_live, is_active) ==
    [inventory |-> inventory, item |-> item, is_live |-> is_live, is_active |-> is_active]

\* An in-memory Listing instance: the row fields plus whether its price
\* converts to a Decimal.
Instance(inventory, item, is_live, is_active, price_ok) ==
    [inventory |-> inventory, item |-> item, is_live |-> is_live,
     is_active |-> is_active, price_ok |-> price_ok]

\* Listing.is_live = models.BooleanField(default=True)  (models.py 69): the
\* value of an instance constructed without is_live.
IsLiveDefault == TRUE

InstanceOf(db, pk) ==
    Instance(db.listings[pk].inventory, db.listings[pk].item,
             db.listings[pk].is_live, db.listings[pk].is_active, TRUE)

MerchantOfListing(db, pk) == db.inventories[db.listings[pk].inventory]

\* {L : L.inventory.merchant = m, L.is_live}
LiveListingsOf(db, m) ==
    {r \in DOMAIN db.listings : MerchantOfListing(db, r) = m /\ db.listings[r].is_live}

\* QuerySet.update(is_live=False) on a set of rows: one UPDATE, no signals.
UpdateLive(db, S) ==
    [db EXCEPT !.listings = [r \in DOMAIN db.listings |->
        IF r \in S THEN [db.listings[r] EXCEPT !.is_live = TRUE] ELSE db.listings[r]]]

UpdateNotLive(db, S) ==
    [db EXCEPT !.listings = [r \in DOMAIN db.listings |->
        IF r \in S THEN [db.listings[r] EXCEPT !.is_live = FALSE] ELSE db.listings[r]]]

\* -------------------------------------------------- models.py / signals.py

\* filter(inventory__merchant=self.inventory.merchant, item=self.item)
SameMerchantItem(db, r, inst) ==
    /\ MerchantOfListing(db, r) = db.inventories[inst.inventory]
    /\ db.listings[r].item = inst.item

\* Listing.objects.filter(inventory__merchant=.., item=.., is_live=True).exclude(pk=pk)
LiveOthers(db, inst, pk) ==
    {r \in DOMAIN db.listings :
        r # pk /\ SameMerchantItem(db, r, inst) /\ db.listings[r].is_live}

\* UniqueConstraint(fields=[inventory, item], condition=Q(is_live=True)):
\* writing row `row` under key pk is rejected when it is live and another
\* live row has the same inventory and item.
UniqueViolation(db, row, pk) ==
    /\ row.is_live
    /\ \E r \in DOMAIN db.listings :
          /\ r # pk
          /\ db.listings[r].is_live
          /\ db.listings[r].inventory = row.inventory
          /\ db.listings[r].item = row.item

\* post_save receiver 1 (signals.py 5-16)
enforce_single_live_listing_noop(db, inst, pk) == db

enforce_single_live_listing(db, inst, pk) ==
    IF inst.is_live THEN UpdateNotLive(db, LiveOthers(db, inst, pk)) ELSE db

\* LiveInventory.objects.get_or_create(merchant=merchant)  (signals.py 28)
LiGetOrCreate(db, merchant) ==
    IF merchant \in DOMAIN db.liveInv THEN db
    ELSE [db EXCEPT !.liveInv = [m \in DOMAIN db.liveInv \cup {merchant} |->
                                    IF m = merchant THEN {} ELSE db.liveInv[m]]]

\* live_inventory.listings.filter(item=instance.item).update(is_live=False)
\* (signals.py 31): every member of the merchant's LiveInventory that has
\* the item, the saved listing included when it is already a member.
LiDemotePrevious(db, merchant, item) ==
    UpdateNotLive(db, {r \in db.liveInv[merchant] : db.listings[r].item = item})

\* live_inventory.listings.add(instance)  (signals.py 34)
LiAdd(db, merchant, pk) == [db EXCEPT !.liveInv[merchant] = @ \cup {pk}]

\* post_save receiver 2 (signals.py 21-40).  The else branch evaluates
\* models.F("listings").remove(instance): `models` is not a name of
\* signals.py (and F has no remove), so the branch raises before any query.
update_live_inventory(db, inst, pk) ==
    IF inst.is_live
    THEN Res(LiAdd(LiDemotePrevious(LiGetOrCreate(db, db.inventories[inst.inventory]),
                                    db.inventories[inst.inventory], inst.item),
                   db.inventories[inst.inventory], pk),
             "none")
    ELSE Res(db, "NameError")

\* Signal.send: receivers run in connection order; an exception of one
\* propagates to the caller of save().
PostSave(db, inst, pk) ==
    update_live_inventory(enforce_single_live_listing(db, inst, pk), inst, pk)

\* models.Model.save, the write: convert the fields, then INSERT (pk = 0, an
\* unsaved instance, gets the next AutoField value) or UPDATE the row.
ModelWrite(db, inst, pk) ==
    IF ~inst.price_ok THEN Res(db, "ValidationError")
    ELSE IF UniqueViolation(db, Row(inst.inventory, inst.item, inst.is_live, inst.is_active),
                            IF pk = 0 THEN db.nextId ELSE pk)
    THEN Res(db, "IntegrityError")
    ELSE Res([db EXCEPT
                !.listings = [r \in DOMAIN db.listings \cup {IF pk = 0 THEN db.nextId ELSE pk} |->
                                IF r = (IF pk = 0 THEN db.nextId ELSE pk)
                                THEN Row(inst.inventory, inst.item, inst.is_live, inst.is_active)
                                ELSE db.listings[r]],
                !.nextId = IF pk = 0 THEN db.nextId + 1 ELSE db.nextId],
             "none")

SendPostSave(w, inst, id) == IF w.exc # "none" THEN w ELSE PostSave(w.db, inst, id)

\* models.Model.save (super().save()): the write, then post_save.
ModelSave(db, inst, pk) ==
    SendPostSave(ModelWrite(db, inst, pk), inst, IF pk = 0 THEN db.nextId ELSE pk)

\* models.py line 116: update_live_inventory(self) -- the name is not
\* defined in models.py, the call raises NameError.
CallUpdateLiveInventory(db, inst, pk) == Res(db, "NameError")

\* Listing.save, lines 115-116: super().save() returned r2 (or raised).
SaveTail(r2, inst, id) ==
    IF r2.exc # "none" THEN r2 ELSE CallUpdateLiveInventory(r2.db, inst, id)

\* Listing.save, from line 115 on, r1 being the outcome of lines 103-113.
SaveBody(r1, inst, pk) ==
    IF r1.exc # "none" THEN r1
    ELSE SaveTail(ModelSave(r1.db, inst, pk), inst, IF pk = 0 THEN r1.db.nextId ELSE pk)

\* Listing.save (models.py 98-131).  Lines 103-113: when self.is_live, the
\* first other live listing of the merchant and item (.first(): lowest pk)
\* gets is_live = False and is saved through Listing.save itself.
RECURSIVE ListingSave(_, _, _)
ListingSave(db, inst, pk) ==
    SaveBody(IF inst.is_live /\ LiveOthers(db, inst, pk) # {}
             THEN ListingSave(db,
                      [InstanceOf(db, Min(LiveOthers(db, inst, pk))) EXCEPT !.is_live = FALSE],
                      Min(LiveOthers(db, inst, pk)))
             ELSE Res(db, "none"),
             inst, pk)

\* LiveInventory.update_live_inventory (models.py 148-152): listings.set(..)
LiveInventory_add_only(db, m) ==
    [db EXCEPT !.liveInv[m] = @ \cup LiveListingsOf(db, m)]

LiveInventory_demote_members(db, m) ==
    [UpdateNotLive(db, db.liveInv[m]) EXCEPT !.liveInv[m] = LiveListingsOf(db, m)]

LiveInventory_update_live_inventory(db, m) ==
    [db EXCEPT !.liveInv[m] = LiveListingsOf(db, m)]

\* ------------------------------------------------------------- bulk rows
\* One CSV row, reduced to what the views look at: the item reference
\* (NoItem: resolves to no Item), the inventory reference (ListingAdmin
\* only), the price cell ("ok", "bad": not a decimal, "blank") and whether
\* the promo date cells parse with %Y-%m-%d.
CsvRow(item, inventory, price, dates_ok) ==
    [item |-> item, inventory |-> inventory, price |-> price, dates_ok |-> dates_ok]

\* Rows offered to InventoryAdmin.bulk_upload_view (item_name, price, promo
\* dates), to ListingAdmin.bulk_upload_view (item_id, inventory_id, price)
\* and to the bulk delete (item_id).
InventoryAdminRowKinds ==
    {CsvRow("x", 1, "ok", TRUE), CsvRow("y", 1, "ok", TRUE), CsvRow(NoItem, 1, "ok", TRUE),
     CsvRow("x", 1, "bad", TRUE), CsvRow("x", 1, "ok", FALSE)}

ListingAdminRowKinds ==
    {CsvRow("x", 1, "ok", TRUE), CsvRow(NoItem, 1, "ok", TRUE),
     CsvRow("x", NoInventory, "ok", TRUE), CsvRow("x", 1, "blank", TRUE)}

BulkDeleteRowKinds ==
    {CsvRow("x", 1, "ok", TRUE), CsvRow("y", 1, "ok", TRUE), CsvRow(NoItem, 1, "ok", TRUE)}

Batches(kinds) == UNION {[1..n -> kinds] : n \in 0..MaxRows}

\* QuerySet.update_or_create(inventory=.., item=.., defaults=..): the whole
\* call runs in transaction.atomic, so an exception leaves db as it was.
\* create_ok = FALSE: the defaults hold a keyword Listing() does not accept.
\* The result carries the instance handed back to the caller.
UocResult(db, r, pk, created, inst) ==
    IF r.exc # "none"
    THEN [db |-> db, exc |-> r.exc, pk |-> 0, created |-> FALSE, inst |-> inst]
    ELSE [db |-> r.db, exc |-> "none", pk |-> pk, created |-> created, inst |-> inst]

UocMatches(db, inventory, item) ==
    {r \in DOMAIN db.listings :
        db.listings[r].inventory = inventory /\ db.listings[r].item = item}

UocUpdate(db, pk, price_ok) ==
    UocResult(db, ListingSave(db, [InstanceOf(db, pk) EXCEPT !.price_ok = price_ok], pk),
              pk, FALSE, [InstanceOf(db, pk) EXCEPT !.price_ok = price_ok])

UocCreate(db, inst) == UocResult(db, ListingSave(db, inst, 0), db.nextId, TRUE, inst)

UpdateOrCreate(db, inventory, item, price_ok, create_ok) ==
    IF Cardinality(UocMatches(db, inventory, item)) > 1
    THEN UocResult(db, Res(db, "MultipleObjectsReturned"), 0, FALSE,
                   Instance(inventory, item, IsLiveDefault, TRUE, price_ok))
    ELSE IF UocMatches(db, inventory, item) = {}
    THEN IF ~create_ok
         THEN UocResult(db, Res(db, "TypeError"), 0, FALSE,
                        Instance(inventory, item, IsLiveDefault, TRUE, price_ok))
         ELSE UocCreate(db, Instance(inventory, item, IsLiveDefault, TRUE, price_ok))
    ELSE UocUpdate(db, CHOOSE r \in UocMatches(db, inventory, item) : TRUE, price_ok)

\* Counters of a bulk request; li_updates counts the runs of the post_save
\* receiver update_live_inventory during the request.
Tally(db, created, updated, errors, exc) ==
    [db |-> db, created |-> created, updated |-> updated, errors |-> errors, exc |-> exc,
     li_updates |-> 0]

\* InventoryAdmin.bulk_upload_view lines 156-175: listing.save() on the
\* instance update_or_create returned, then the counters; an exception is
\* caught by the row's except (no atomic block of its own: writes stay).
InventoryAdminCount(t, uc, s2) ==
    IF s2.exc # "none" THEN [t EXCEPT !.db = s2.db, !.errors = @ + 1]
    ELSE IF uc.created THEN [t EXCEPT !.db = s2.db, !.created = @ + 1]
    ELSE [t EXCEPT !.db = s2.db, !.updated = @ + 1]

InventoryAdminSaved(t, uc) ==
    IF uc.exc # "none" THEN [t EXCEPT !.errors = @ + 1]
    ELSE InventoryAdminCount(t, uc, ListingSave(uc.db, uc.inst, uc.pk))

\* How often Listing.save(inst) under key pk sends post_save to the
\* receiver update_live_inventory: once per row write that succeeds, the
\* write of the demoted old listing (models.py 113) included.
WriteRuns(db, inst, pk) == IF ModelWrite(db, inst, pk).exc = "none" THEN 1 ELSE 0

RunsAfter(r1, inst, pk) == IF r1.exc # "none" THEN 0 ELSE WriteRuns(r1.db, inst, pk)

RECURSIVE ReceiverRuns(_, _, _)
ReceiverRuns(db, inst, pk) ==
    IF inst.is_live /\ LiveOthers(db, inst, pk) # {}
    THEN ReceiverRuns(db, [InstanceOf(db, Min(LiveOthers(db, inst, pk))) EXCEPT !.is_live = FALSE],
                      Min(LiveOthers(db, inst, pk)))
         + RunsAfter(ListingSave(db,
                        [InstanceOf(db, Min(LiveOthers(db, inst, pk))) EXCEPT !.is_live = FALSE],
                        Min(LiveOthers(db, inst, pk))),
                     inst, pk)
    ELSE WriteRuns(db, inst, pk)

\* The same for update_or_create(inventory=.., item=.., defaults=..).
UocRuns(db, inventory, item, price_ok) ==
    IF Cardinality(UocMatches(db, inventory, item)) > 1 THEN 0
    ELSE IF UocMatches(db, inventory, item) = {}
    THEN ReceiverRuns(db, Instance(inventory, item, IsLiveDefault, TRUE, price_ok), 0)
    ELSE ReceiverRuns(db, [InstanceOf(db, CHOOSE r \in UocMatches(db, inventory, item) : TRUE)
                             EXCEPT !.price_ok = price_ok],
                      CHOOSE r \in UocMatches(db, inventory, item) : TRUE)

\* ... and for listing.save() of line 156 on what update_or_create returned.
SecondSaveRuns(uc) == IF uc.exc # "none" THEN 0 ELSE ReceiverRuns(uc.db, uc.inst, uc.pk)

\* InventoryAdmin.bulk_upload_view, one iteration of the row loop
\* (admin.py 126-175): try/except Exception around the whole row.
InventoryAdminRow_skip_unfound(t, inventory, row) ==
    IF row.item = NoItem THEN t ELSE [t EXCEPT !.errors = @ + 1]

InventoryAdminRow(t, inventory, row) ==
    IF row.item = NoItem THEN [t EXCEPT !.errors = @ + 1]         \* item not found
    ELSE IF ~row.dates_ok THEN [t EXCEPT !.errors = @ + 1]        \* strptime ValueError
    ELSE [InventoryAdminSaved(t, UpdateOrCreate(t.db, inventory, row.item, row.price = "ok", TRUE))
            EXCEPT !.li_updates =
                      @ + UocRuns(t.db, inventory, row.item, row.price = "ok")
                        + SecondSaveRuns(UpdateOrCreate(t.db, inventory, row.item,
                                                        row.price = "ok", TRUE))]

RECURSIVE InventoryAdminRows(_, _, _)
InventoryAdminRows(t, inventory, rows) ==
    IF rows = <<>> THEN t
    ELSE InventoryAdminRows(InventoryAdminRow(t, inventory, Head(rows)), inventory, Tail(rows))

ListingAdminCount(t, uc) ==
    IF uc.exc # "none" THEN [t EXCEPT !.exc = uc.exc]
    ELSE IF uc.created THEN [t EXCEPT !.db = uc.db, !.created = @ + 1]
    ELSE [t EXCEPT !.db = uc.db, !.updated = @ + 1]

\* ListingAdmin.bulk_upload_view, one iteration (admin.py 375-399): no
\* try/except; t.exc # "none" means an exception has left the loop.
ListingAdminRow(t, row) ==
    IF row.price = "blank" THEN [t EXCEPT !.errors = @ + 1]  \* not item_id/inventory_id/price
    ELSE IF row.item = NoItem THEN [t EXCEPT !.exc = "DoesNotExist"]        \* Item.objects.get
    ELSE IF row.inventory \notin DOMAIN t.db.inventories
    THEN [t EXCEPT !.exc = "DoesNotExist"]                                  \* Inventory.objects.get
    ELSE ListingAdminCount(t, UpdateOrCreate(t.db, row.inventory, row.item, TRUE, FALSE))

RECURSIVE ListingAdminRows(_, _)
ListingAdminRows(t, rows) ==
    IF rows = <<>> \/ t.exc # "none" THEN t
    ELSE ListingAdminRows(ListingAdminRow(t, Head(rows)), Tail(rows))

\* InventoryViewSet.upload_csv, the row loop (api/views.py 70-88): only
\* Item.DoesNotExist is caught.  Item has no field `id` (its key is
\* item_id), so Item.objects.get(id=..) raises FieldError for every row
\* that reaches it.
UploadCsvRow(t, inventory, row) ==
    IF row.price = "blank" THEN t                           \* not item_id or not price
    ELSE [t EXCEPT !.exc = "FieldError"]

RECURSIVE UploadCsvRows(_, _, _)
UploadCsvRows(t, inventory, rows) ==
    IF rows = <<>> \/ t.exc # "none" THEN t
    ELSE UploadCsvRows(UploadCsvRow(t, inventory, Head(rows)), inventory, Tail(rows))

\* Model.delete() of a Listing: the row goes, and with it (CASCADE) its
\* rows in the LiveInventory.listings relation.
DeleteListing(db, pk) ==
    [db EXCEPT !.listings = [r \in DOMAIN db.listings \ {pk} |-> db.listings[r]],
               !.liveInv = [m \in DOMAIN db.liveInv |-> db.liveInv[m] \ {pk}]]

\* InventoryAdmin.bulk_delete_view, one iteration (admin.py 199-213);
\* t.created counts `deleted`, t.errors counts `not_found`.
BulkDeleteRow(t, inventory, row) ==
    IF row.item = NoItem THEN [t EXCEPT !.errors = @ + 1]
    ELSE LET matches == {r \in DOMAIN t.db.listings :
                            t.db.listings[r].inventory = inventory
                            /\ t.db.listings[r].item = row.item}
         IN IF matches = {} THEN t                           \* except Listing.DoesNotExist: pass
            ELSE IF Cardinality(matches) > 1 THEN [t EXCEPT !.exc = "MultipleObjectsReturned"]
            ELSE [t EXCEPT !.db = DeleteListing(t.db, CHOOSE r \in matches : TRUE),
                           !.created = @ + 1]

RECURSIVE BulkDeleteRows(_, _, _)
BulkDeleteRows(t, inventory, rows) ==
    IF rows = <<>> \/ t.exc # "none" THEN t
    ELSE BulkDeleteRows(BulkDeleteRow(t, inventory, Head(rows)), inventory, Tail(rows))

\* ------------------------------------------------------------ bookkeeping
CountRows(rows, P(_)) == Cardinality({i \in 1..Len(rows) : P(rows[i])})

ValidRow(row) == row.item # NoItem /\ row.inventory # NoInventory
                 /\ row.price = "ok" /\ row.dates_ok
UnresolvableRow(row) == row.item = NoItem

HasListing(db, inventory, item) ==
    \E r \in DOMAIN db.listings :
        db.listings[r].inventory = inventory /\ db.listings[r].item = item

NoBulk == [rows |-> 0, valid |-> 0, unresolvable |-> 0, created |-> 0, updated |-> 0,
           errors |-> 0, missing |-> 0, li_updates |-> 0]

\* Summary of a bulk request over `rows` into `inventory` that ended in
\* tally t: missing = valid rows without a listing afterwards.
BulkSummary(rows, inventory, t, db) ==
    [rows |-> Len(rows),
     valid |-> CountRows(rows, ValidRow),
     unresolvable |-> CountRows(rows, UnresolvableRow),
     created |-> t.created, updated |-> t.updated, errors |-> t.errors,
     li_updates |-> t.li_updates,
     missing |-> Cardinality({i \in 1..Len(rows) :
                    ValidRow(rows[i]) /\ ~HasListing(db, inventory, rows[i].item)})]

LiveIds(db) == {r \in DOMAIN db.listings : db.listings[r].is_live}

LiOf(db, m) == IF m \in DOMAIN db.liveInv THEN db.liveInv[m] ELSE {}

NoMerchant == "no_merchant"

\* No acting user recorded for the request.
NoUser == "no_user"

\* The record of a request: op, the listing (pk), inventory, item and
\* merchant it addressed, mark = the is_live value of the saved instance,
\* exc = the exception it ended with, pre_live = the listings live before
\* it, pre_li = the merchant's LiveInventory members before it, again =
\* the request before it was the same resync, bulk = a bulk request's
\* summary, user = the acting user where the request records one, result =
\* the listings a read request returned.
Last(op, pk, inventory, item, mark, exc, pre, bulk) ==
    [op |-> op, pk |-> pk, inventory |-> inventory, item |-> item,
     merchant |-> IF inventory \in DOMAIN pre.inventories
                  THEN pre.inventories[inventory] ELSE NoMerchant,
     mark |-> mark, exc |-> exc, pre_live |-> LiveIds(pre),
     pre_li |-> IF inventory \in DOMAIN pre.inventories
                THEN LiOf(pre, pre.inventories[inventory]) ELSE {},
     again |-> FALSE, bulk |-> bulk, user |-> NoUser, result |-> {}]

Commit(db, l) ==
    /\ inventories' = db.inventories
    /\ listings' = db.listings
    /\ liveInv' = db.liveInv
    /\ nextId' = db.nextId
    /\ last' = l
    /\ UNCHANGED procs
    /\ UNCHANGED userVars

\* A request that saved instance inst under key pk outside any transaction.
CommitRes(r, op, pk, inst) ==
    Commit(r.db, Last(op, pk, inst.inventory, inst.item, inst.is_live, r.exc, CurrentDb, NoBulk))

\* A bulk request that ended in tally t; an exception that leaves the
\* loop's transaction.atomic rolls the whole loop back.
CommitBulk(t, op, inventory, rows) ==
    IF t.exc # "none"
    THEN Commit(CurrentDb, Last(op, 0, inventory, NoItem, FALSE, t.exc, CurrentDb,
                                BulkSummary(rows, inventory, t, CurrentDb)))
    ELSE Commit(t.db, Last(op, 0, inventory, NoItem, FALSE, t.exc, CurrentDb,
                           BulkSummary(rows, inventory, t, t.db)))

\* What a request of the users app leaves behind: its kind, user and role,
\* the exception it ended with and, for an authentication, the token pair
\* presented and whether its access token was accepted.
LastUser(op, user, role, exc, token, accepted) ==
    [op |-> op, user |-> user, role |-> role, exc |-> exc, token |-> token, accepted |-> accepted]

UserIdle == LastUser("init", 0, "none", "none", 0, FALSE)

\* No user exists and no token was issued.
NoUsers ==
    /\ userRole = << >>
    /\ customers = {}
    /\ merchants = << >>
    /\ passwords = << >>
    /\ tokens = << >>
    /\ blacklist = {}
    /\ cache = {}
    /\ lastUser = UserIdle

EmptyDb == [inventories |-> << >>, listings |-> << >>, liveInv |-> << >>, nextId |-> 1]

Idle == Last("init", 0, NoInventory, NoItem, FALSE, "none", EmptyDb, NoBulk)

\* ---------------------------------------------------------------- actions
Init ==
    /\ inventories = << >>
    /\ listings = << >>
    /\ liveInv = << >>
    /\ nextId = 1
    /\ last = Idle
    /\ procs = << >>
    /\ NoUsers

\* InventoryViewSet.perform_create (api/views.py 33-35)
CreateInventory(merchant) ==
    /\ Cardinality(DOMAIN inventories) < MaxInventories
    /\ Commit([CurrentDb EXCEPT !.inventories =
                 [i \in DOMAIN inventories \cup {Cardinality(DOMAIN inventories) + 1} |->
                     IF i \in DOMAIN inventories THEN inventories[i] ELSE merchant]],
              Last("create_inventory", 0, NoInventory, NoItem, FALSE, "none", CurrentDb, NoBulk))

\* ListingViewSet.perform_create (api/views.py 239-244)
CreateListing(user, inventory, item, is_live) ==
    /\ nextId <= MaxListings
    /\ inventory \in DOMAIN inventories
    /\ IF inventories[inventory] # user
       THEN Commit(CurrentDb, Last("create_denied", 0, inventory, item, is_live, "none",
                                   CurrentDb, NoBulk))
       ELSE CommitRes(ListingSave(CurrentDb, Instance(inventory, item, is_live, TRUE, TRUE), 0),
                      "create", nextId, Instance(inventory, item, is_live, TRUE, TRUE))

\* CreateModelMixin.create around perform_create: the value perform_create
\* returns is not used; the view answers 201 unless an exception left it.
ListingCreateStatus(l) == IF l.exc # "none" THEN 500 ELSE 201

\* ListingViewSet.perform_create for a payload that gives no is_live: the
\* instance is constructed without it (as Listing.objects.create(inventory,
\* item, price) of upload_csv, api/views.py 78-85) and takes the field default.
CreateListingDefault(user, inventory, item) ==
    /\ nextId <= MaxListings
    /\ inventory \in DOMAIN inventories
    /\ inventories[inventory] = user
    /\ CommitRes(ListingSave(CurrentDb, Instance(inventory, item, IsLiveDefault, TRUE, TRUE), 0),
                 "create_default", nextId, Instance(inventory, item, IsLiveDefault, TRUE, TRUE))

\* What can be wrong with the values of a listing payload: a price below
\* zero, or a promo_start_date after the promo_end_date.
PayloadProblems == {"negative_price", "inverted_promo"}

\* ListingViewSet.perform_create for a payload with such values.  price is
\* DecimalField(max_digits=10, decimal_places=2) and the promo dates are
\* DateFields (models.py 66-68) with no validators, and Listing.save makes no
\* test of its own: the values convert, and the instance is saved as any other.
CreateListingInvalid(user, inventory, item, is_live, problem) ==
    /\ nextId <= MaxListings
    /\ inventory \in DOMAIN inventories
    /\ inventories[inventory] = user
    /\ CommitRes(ListingSave(CurrentDb, Instance(inventory, item, is_live, TRUE, TRUE), 0),
                 "create_invalid", nextId, Instance(inventory, item, is_live, TRUE, TRUE))

\* ListingViewSet update (ModelViewSet.update -> serializer.save -> instance.save())
\* on the queryset Listing.objects.filter(is_active=True); perform_update is
\* not overridden, so no ownership check is made.  The request sets is_live
\* and keeps the listing's inventory and item.
UpdateListing(pk, is_live) ==
    /\ pk \in DOMAIN listings
    /\ listings[pk].is_active
    /\ CommitRes(ListingSave(CurrentDb, [InstanceOf(CurrentDb, pk) EXCEPT !.is_live = is_live], pk),
                 "update", pk, [InstanceOf(CurrentDb, pk) EXCEPT !.is_live = is_live])

\* A request by acting user `user` that saved instance inst under key pk.
CommitResBy(r, op, pk, inst, user) ==
    Commit(r.db, [Last(op, pk, inst.inventory, inst.item, inst.is_live, r.exc, CurrentDb, NoBulk)
                    EXCEPT !.user = user])

\* ListingViewSet.destroy by an authenticated user: get_permissions (api/
\* views.py 233-237) asks for IsAuthenticated only, get_object looks the
\* listing up in filter(is_active=True), and perform_destroy (246-250)
\* makes no test on the acting user.
SoftDeleteListing(user, pk) ==
    /\ pk \in DOMAIN listings
    /\ listings[pk].is_active
    /\ CommitResBy(ListingSave(CurrentDb, [InstanceOf(CurrentDb, pk) EXCEPT !.is_active = FALSE], pk),
                   "soft_delete", pk, InstanceOf(CurrentDb, pk), user)

\* LiveInventory.update_live_inventory on the merchant's LiveInventory row
Resync(merchant) ==
    /\ merchant \in DOMAIN liveInv
    /\ Commit(LiveInventory_update_live_inventory(CurrentDb, merchant),
              [Idle EXCEPT !.op = "resync", !.merchant = merchant,
                           !.pre_live = LiveIds(CurrentDb), !.pre_li = liveInv[merchant],
                           !.again = (last.op = "resync" /\ last.merchant = merchant)])

\* InventoryAdmin.bulk_upload_view (admin.py 77-183): the row loop runs in
\* one transaction.atomic, every row in its own try/except.
InventoryAdminBulkUpload(inventory, rows) ==
    /\ nextId <= MaxListings
    /\ inventory \in DOMAIN inventories
    /\ CommitBulk(InventoryAdminRows(Tally(CurrentDb, 0, 0, 0, "none"), inventory, rows),
                  "inventory_admin_upload", inventory, rows)

\* ListingAdmin.bulk_upload_view (admin.py 365-404): one transaction.atomic
\* around the loop; an exception leaving it rolls every row back.  The rows
\* name inventory 1 or an inventory that does not exist.
ListingAdminBulkUpload(rows) ==
    /\ nextId <= MaxListings
    /\ 1 \in DOMAIN inventories
    /\ CommitBulk(ListingAdminRows(Tally(CurrentDb, 0, 0, 0, "none"), rows),
                  "listing_admin_upload", 1, rows)

\* InventoryAdmin.bulk_delete_view (admin.py 186-218)
BulkDelete(inventory, rows) ==
    /\ inventory \in DOMAIN inventories
    /\ CommitBulk(BulkDeleteRows(Tally(CurrentDb, 0, 0, 0, "none"), inventory, rows),
                  "bulk_delete", inventory, rows)

\* Listing.objects.filter(item=instance).update(is_active=False)
\* (api/views.py 129): one UPDATE, no save() and no post_save.
UpdateNotActive(db, S) ==
    [db EXCEPT !.listings = [r \in DOMAIN db.listings |->
        IF r \in S THEN [db.listings[r] EXCEPT !.is_active = FALSE] ELSE db.listings[r]]]

\* ItemViewSet.perform_destroy (api/views.py 125-130), by an admin.  Item
\* has no field `deleted`: instance.deleted = True; instance.save() stores
\* nothing new on the item.
ItemSoftDelete(item) ==
    /\ \E r \in DOMAIN listings : listings[r].item = item /\ listings[r].is_active
    /\ Commit(UpdateNotActive(CurrentDb, {r \in DOMAIN listings : listings[r].item = item}),
              Last("item_soft_delete", 0, NoInventory, item, FALSE, "none", CurrentDb, NoBulk))

\* A list request without a search term.
NoSearch == "no_search"

\* ListingViewSet.queryset (api/views.py 226): Listing.objects.filter(is_active=True)
ListingQueryset_all(db) == DOMAIN db.listings

ListingQueryset(db) == {r \in DOMAIN db.listings : db.listings[r].is_active}

\* SearchFilter over search_fields (api/views.py 230-231), reduced to the
\* item name: the rows of the queryset whose item matches the term.
SearchListings(db, term) ==
    {r \in ListingQueryset(db) : term = NoSearch \/ db.listings[r].item = term}

\* ListingViewSet.list (AllowAny): the customer-facing list / search.
ListListings(term) ==
    /\ listings # << >>
    /\ Commit(CurrentDb,
              [Last("list", 0, NoInventory, NoItem, FALSE, "none", CurrentDb, NoBulk)
                 EXCEPT !.item = term, !.result = SearchListings(CurrentDb, term)])

\* SnapViewSet.get_snap_details, line 62:
\* Listing.objects.filter(item=item, is_active=True, is_live=True)
OtherListings(db, item) ==
    {r \in DOMAIN db.listings :
        db.listings[r].item = item /\ db.listings[r].is_active /\ db.listings[r].is_live}

\* SnapViewSet.get_snap_details (snap/api/views.py 54-68) for a snap of
\* listing pk: "other_listings" of the answer.
SnapListingInfo(pk) ==
    /\ pk \in DOMAIN listings
    /\ Commit(CurrentDb,
              [Last("listing_info", pk, listings[pk].inventory, listings[pk].item, FALSE, "none",
                    CurrentDb, NoBulk)
                 EXCEPT !.result = OtherListings(CurrentDb, listings[pk].item)])

\* The role of a merchant account, one of User.ROLE_CHOICES (users/models.py 21-25).
RoleOf(user) == "merchant"

\* InventoryViewSet.upload_csv (api/views.py 44-99).  The role test compares
\* with "Merchant"; past it the view creates an Inventory (committed at
\* once: no transaction) and runs the row loop.
UploadCsv(user, rows) ==
    IF RoleOf(user) # "Merchant"
    THEN Commit(CurrentDb, Last("upload_csv_denied", 0, NoInventory, NoItem, FALSE, "none",
                                CurrentDb, NoBulk))
    ELSE /\ Cardinality(DOMAIN inventories) < MaxInventories
         /\ Commit(UploadCsvRows(
                      Tally([CurrentDb EXCEPT !.inventories =
                               [i \in DOMAIN inventories \cup {Cardinality(DOMAIN inventories) + 1} |->
                                   IF i \in DOMAIN inventories THEN inventories[i] ELSE user]],
                            0, 0, 0, "none"),
                      Cardinality(DOMAIN inventories) + 1, rows).db,
                   Last("upload_csv", 0, NoInventory, NoItem, FALSE,
                        UploadCsvRows(Tally(CurrentDb, 0, 0, 0, "none"), 0, rows).exc,
                        CurrentDb, NoBulk))

Next ==
    \/ \E m \in Merchants : CreateInventory(m)
    \/ \E u \in Merchants, i \in InventoryIds, x \in Items, b \in BOOLEAN :
          CreateListing(u, i, x, b)
    \/ \E u \in Merchants, i \in InventoryIds, x \in Items : CreateListingDefault(u, i, x)
    \/ \E u \in Merchants, i \in InventoryIds, x \in Items, b \in BOOLEAN, w \in PayloadProblems :
          CreateListingInvalid(u, i, x, b, w)
    \/ \E pk \in 1..MaxListings, b \in BOOLEAN : UpdateListing(pk, b)
    \/ \E u \in Merchants, pk \in 1..MaxListings : SoftDeleteListing(u, pk)
    \/ \E m \in Merchants : Resync(m)
    \/ \E i \in InventoryIds, rows \in Batches(InventoryAdminRowKinds) : InventoryAdminBulkUpload(i, rows)
    \/ \E rows \in Batches(ListingAdminRowKinds) : ListingAdminBulkUpload(rows)
    \/ \E i \in InventoryIds, rows \in Batches(BulkDeleteRowKinds) : BulkDelete(i, rows)
    \/ \E u \in Merchants, rows \in Batches(ListingAdminRowKinds) : UploadCsv(u, rows)
    \/ \E x \in Items : ItemSoftDelete(x)
    \/ \E term \in Items \cup {NoSearch} : ListListings(term)
    \/ \E pk \in 1..MaxListings : SnapListingInfo(pk)

Spec == Init /\ [][Next]_vars

\* ------------------------------------------- concurrent mark-live requests
\* Two request handlers run Listing.save() of two different listings marked
\* live for the same merchant and item.  The datastore is in autocommit
\* mode: every ORM statement of save() and of the post_save receivers is
\* one atomic step, and the handlers interleave between statements.
\*   start    lines 103-109   SELECT the old live listing
\*   demote   lines 111-113   old_listing.save(update_fields=["is_live"])
\*   write    line 115        INSERT / UPDATE of super().save()
\*   enforce  signals.py 11-16
\*   li_get, li_demote, li_add   signals.py 28, 31, 34, then models.py 116
ProcIds == {1, 2}

Request(inst, pk) == [pc |-> "start", inst |-> inst, pk |-> pk, old |-> 0, exc |-> "none"]

\* Datastores the sequential requests reach: no listing; listing 1 live and
\* in LiveInventory; listing 1 created not live; listing 1 demoted by a
\* re-save while staying a LiveInventory member.
ConcStartDbs ==
    {[listings |-> << >>, liveInv |-> << >>, nextId |-> 1],
     [listings |-> (1 :> Row(1, "x", TRUE, TRUE)), liveInv |-> ("m1" :> {1}), nextId |-> 2],
     [listings |-> (1 :> Row(1, "x", FALSE, TRUE)), liveInv |-> << >>, nextId |-> 2],
     [listings |-> (1 :> Row(1, "x", FALSE, TRUE)), liveInv |-> ("m1" :> {1}), nextId |-> 2]}

ConcRequests(d) ==
    {Request(Instance(i, "x", TRUE, TRUE, TRUE), 0) : i \in {1, 2}}
    \cup {Request(Instance(d.listings[r].inventory, d.listings[r].item, TRUE, TRUE, TRUE), r) :
            r \in DOMAIN d.listings}

ConcInit ==
    /\ inventories = (1 :> "m1" @@ 2 :> "m1")
    /\ \E d \in ConcStartDbs :
          /\ listings = d.listings
          /\ liveInv = d.liveInv
          /\ nextId = d.nextId
          /\ procs \in {f \in [ProcIds -> ConcRequests(d)] : f[1].pk = 0 \/ f[1].pk # f[2].pk}
    /\ last = Idle
    /\ NoUsers

SetDb(db) ==
    /\ inventories' = db.inventories
    /\ listings' = db.listings
    /\ liveInv' = db.liveInv
    /\ nextId' = db.nextId
    /\ UNCHANGED last
    /\ UNCHANGED userVars

\* The handler goes on to pc `next` after a statement that returned r, or
\* ends with r's exception.
Advance(p, r, next) ==
    /\ SetDb(r.db)
    /\ procs' = [procs EXCEPT ![p].pc = IF r.exc # "none" THEN "done" ELSE next,
                              ![p].exc = r.exc]

ConcStart(p) ==
    /\ procs[p].pc = "start"
    /\ UNCHANGED <<inventories, listings, liveInv, nextId, last>>
    /\ UNCHANGED userVars
    /\ IF procs[p].inst.is_live /\ LiveOthers(CurrentDb, procs[p].inst, procs[p].pk) # {}
       THEN procs' = [procs EXCEPT ![p].pc = "demote",
                         ![p].old = Min(LiveOthers(CurrentDb, procs[p].inst, procs[p].pk))]
       ELSE procs' = [procs EXCEPT ![p].pc = "write"]

ConcDemote(p) ==
    /\ procs[p].pc = "demote"
    /\ Advance(p, ListingSave(CurrentDb,
                     [InstanceOf(CurrentDb, procs[p].old) EXCEPT !.is_live = FALSE],
                     procs[p].old),
               "write")

ConcWrite(p) ==
    /\ procs[p].pc = "write"
    /\ SetDb(ModelWrite(CurrentDb, procs[p].inst, procs[p].pk).db)
    /\ procs' = [procs EXCEPT
          ![p].pc = IF ModelWrite(CurrentDb, procs[p].inst, procs[p].pk).exc # "none"
                    THEN "done" ELSE "enforce",
          ![p].exc = ModelWrite(CurrentDb, procs[p].inst, procs[p].pk).exc,
          ![p].pk = IF ModelWrite(CurrentDb, procs[p].inst, procs[p].pk).exc = "none"
                       /\ procs[p].pk = 0
                    THEN nextId ELSE procs[p].pk]

ConcEnforce(p) ==
    /\ procs[p].pc = "enforce"
    /\ Advance(p, Res(enforce_single_live_listing(CurrentDb, procs[p].inst, procs[p].pk), "none"),
               "li_get")

ConcLiGet(p) ==
    /\ procs[p].pc = "li_get"
    /\ Advance(p, Res(LiGetOrCreate(CurrentDb, inventories[procs[p].inst.inventory]), "none"),
               "li_demote")

ConcLiDemote(p) ==
    /\ procs[p].pc = "li_demote"
    /\ Advance(p, Res(LiDemotePrevious(CurrentDb, inventories[procs[p].inst.inventory],
                                       procs[p].inst.item), "none"),
               "li_add")

ConcLiAdd(p) ==
    /\ procs[p].pc = "li_add"
    /\ Advance(p, CallUpdateLiveInventory(
                     LiAdd(CurrentDb, inventories[procs[p].inst.inventory], procs[p].pk),
                     procs[p].inst, procs[p].pk),
               "done")

ConcNext ==
    \E p \in ProcIds :
        \/ ConcStart(p)
        \/ ConcDemote(p)
        \/ ConcWrite(p)
        \/ ConcEnforce(p)
        \/ ConcLiGet(p)
        \/ ConcLiDemote(p)
        \/ ConcLiAdd(p)

ConcSpec == ConcInit /\ [][ConcNext]_vars

\* ------------------------------------------------- saves on drifted data
\* Datastores in which two listings of merchant m1 and item x are live at
\* once, in the merchant's two inventories (the constraint of models.py
\* 76-83 allows it; concurrent saves and direct edits produce it), next to
\* at most one more listing of the item that is not live.  LiveInventory
\* of m1 is absent or holds any of the listings.
MaxDriftListings == 3

DriftListings ==
    {f \in UNION {[1..n -> {Row(i, "x", b, TRUE) : i \in InventoryIds, b \in BOOLEAN}] :
                    n \in 2..MaxDriftListings} :
        /\ Cardinality({r \in DOMAIN f : f[r].is_live}) = 2
        /\ \A r1, r2 \in DOMAIN f :
              (f[r1].is_live /\ f[r2].is_live /\ f[r1].inventory = f[r2].inventory) => r1 = r2}

DriftInit ==
    /\ inventories = [i \in InventoryIds |-> "m1"]
    /\ listings \in DriftListings
    /\ liveInv \in {<< >>} \cup {[m \in {"m1"} |-> S] : S \in SUBSET DOMAIN listings}
    /\ nextId = Len(listings) + 1
    /\ last = Idle
    /\ procs = << >>
    /\ NoUsers

\* The requests on such a datastore: updates of its listings.
DriftNext == \E pk \in 1..MaxDriftListings, b \in BOOLEAN : UpdateListing(pk, b)

DriftSpec == DriftInit /\ [][DriftNext]_vars

\* ------------------------------------------------------------------ users
MaxUsers == 3

MaxPasswordChanges == 2

MaxTokens == 3

UserIds == 1..MaxUsers

\* User.ROLE_CHOICES (users/models.py 23-27)
ROLE_CHOICES == {"customer", "merchant", "admin"}

\* The company_name of a Merchant created without one: the CharField has
\* no default, so it is the empty string (users/models.py 150).
BlankName == ""

\* The company names that merchants give their profiles.
CompanyNames == {"a", "b"}

\* f"Merchant {obj.email}" (users/admin.py 89), one per user.
PlaceholderNames == <<"Merchant u1", "Merchant u2", "Merchant u3">>

\* The User, Customer and Merchant tables.
CurrentUsers == [role |-> userRole, customers |-> customers, merchants |-> merchants]

\* Customer.objects.create(user=u): the user is the primary key.
CustomerCreate(db, u) ==
    IF u \in db.customers
    THEN Res(db, "IntegrityError")
    ELSE Res([db EXCEPT !.customers = @ \cup {u}], "none")

\* Merchant.objects.create(user=u): the user is the primary key and
\* company_name, left blank, is unique.
MerchantCreate(db, u) ==
    IF u \in DOMAIN db.merchants \/ \E m \in DOMAIN db.merchants : db.merchants[m] = BlankName
    THEN Res(db, "IntegrityError")
    ELSE Res([db EXCEPT !.merchants = @ @@ (u :> BlankName)], "none")

\* The profile that goes with a role; role admin has none.
ProfileCreate(db, u, role) ==
    CASE role = "customer" -> CustomerCreate(db, u)
      [] role = "merchant" -> MerchantCreate(db, u)
      [] OTHER -> Res(db, "none")

\* Customer.objects.filter(user=u).delete() / Merchant.objects.filter(user=u).delete():
\* a queryset delete, which does not call the model's delete().
ProfileDelete(db, u, role) ==
    CASE role = "customer" -> [db EXCEPT !.customers = @ \ {u}]
      [] role = "merchant" -> [db EXCEPT !.merchants = [m \in DOMAIN @ \ {u} |-> @[m]]]
      [] OTHER -> db

\* User.save of a user that is not stored yet: the row, then its profile.
UserSaveNew(db, u, role) ==
    ProfileCreate([db EXCEPT !.role = @ @@ (u :> role)], u, role)

\* User.save of a stored user: the row, then, if the role differs from the
\* stored one, the old profile is deleted and the new one created.
UserSaveExisting(db, u, role) ==
    IF db.role[u] # role
    THEN ProfileCreate(ProfileDelete([db EXCEPT !.role[u] = role], u, db.role[u]), u, role)
    ELSE Res(db, "none")

\* User.save
UserSave(db, u, role) ==
    IF u \in DOMAIN db.role THEN UserSaveExisting(db, u, role) ELSE UserSaveNew(db, u, role)

\* UserSerializer.create: ModelSerializer.create saves the user, then the
\* profile is created once more.
UserSerializer_create(db, u, role) ==
    IF UserSave(db, u, role).exc # "none"
    THEN UserSave(db, u, role)
    ELSE ProfileCreate(UserSave(db, u, role).db, u, role)

\* UserSerializer.update: a change to customer or merchant first updates
\* is_active on the other profile's queryset, a field neither profile has;
\* otherwise ModelSerializer.update saves the user.
UserSerializer_update(db, u, role) ==
    IF role # db.role[u] /\ role \in {"customer", "merchant"}
    THEN Res(db, "FieldDoesNotExist")
    ELSE UserSave(db, u, role)

\* Customer.objects.get_or_create(user=u) / Merchant.objects.get_or_create(user=u)
\* with the placeholder company name for a merchant it created.
ProfileGetOrCreate(db, u, role) ==
    CASE role = "customer" /\ u \notin db.customers -> CustomerCreate(db, u)
      [] role = "merchant" /\ u \notin DOMAIN db.merchants ->
            IF MerchantCreate(db, u).exc # "none"
            THEN MerchantCreate(db, u)
            ELSE Res([MerchantCreate(db, u).db EXCEPT !.merchants[u] = PlaceholderNames[u]], "none")
      [] OTHER -> Res(db, "none")

\* The old profile of a stored user whose role changes is deleted first.
AdminDeleteOld(db, u, role) ==
    IF u \in DOMAIN db.role /\ db.role[u] # role
    THEN ProfileDelete(db, u, db.role[u])
    ELSE db

\* UserAdmin.save_model
UserAdmin_save_model(db, u, role) ==
    IF UserSave(AdminDeleteOld(db, u, role), u, role).exc # "none"
    THEN UserSave(AdminDeleteOld(db, u, role), u, role)
    ELSE ProfileGetOrCreate(UserSave(AdminDeleteOld(db, u, role), u, role).db, u, role)

\* The id the next user row gets.
NextUserId == Cardinality(DOMAIN userRole) + 1

\* The tables become db; a user row that is new has its first password.
UserCommit(db, l) ==
    /\ userRole' = db.role
    /\ customers' = db.customers
    /\ merchants' = db.merchants
    /\ passwords' = [u \in DOMAIN db.role |-> IF u \in DOMAIN passwords THEN passwords[u] ELSE 0]
    /\ lastUser' = l
    /\ UNCHANGED <<tokens, blacklist, cache>>
    /\ UNCHANGED invVars

\* A request inside transaction.atomic: an exception rolls it back.
UserCommitAtomic(r, l) ==
    IF r.exc # "none" THEN UserCommit(CurrentUsers, l) ELSE UserCommit(r.db, l)

UserInit ==
    /\ inventories = << >>
    /\ listings = << >>
    /\ liveInv = << >>
    /\ nextId = 1
    /\ last = Idle
    /\ procs = << >>
    /\ NoUsers

\* UserRegistrationView.create: one statement at a time, no transaction.
Register(role) ==
    /\ NextUserId <= MaxUsers
    /\ UserCommit(UserSerializer_create(CurrentUsers, NextUserId, role).db,
                  LastUser("register", NextUserId, role,
                           UserSerializer_create(CurrentUsers, NextUserId, role).exc, 0, FALSE))

\* UserViewSet.me, PATCH or PUT with a role.
UpdateUser(u, role) ==
    /\ u \in DOMAIN userRole
    /\ UserCommit(UserSerializer_update(CurrentUsers, u, role).db,
                  LastUser("update_user", u, role,
                           UserSerializer_update(CurrentUsers, u, role).exc, 0, FALSE))

\* The admin's add view: the creation form offers customer and merchant.
AdminAddUser(role) ==
    /\ NextUserId <= MaxUsers
    /\ role \in {"customer", "merchant"}
    /\ UserCommitAtomic(UserAdmin_save_model(CurrentUsers, NextUserId, role),
                        LastUser("admin_add", NextUserId, role,
                                 UserAdmin_save_model(CurrentUsers, NextUserId, role).exc, 0, FALSE))

\* The admin's change view.
AdminChangeUser(u, role) ==
    /\ u \in DOMAIN userRole
    /\ UserCommitAtomic(UserAdmin_save_model(CurrentUsers, u, role),
                        LastUser("admin_change", u, role,
                                 UserAdmin_save_model(CurrentUsers, u, role).exc, 0, FALSE))

\* MerchantViewSet.me, PATCH with a company name: the serializer rejects a
\* name another merchant has.
UpdateMerchant(u, name) ==
    /\ u \in DOMAIN merchants
    /\ userRole[u] = "merchant"
    /\ IF \E m \in DOMAIN merchants \ {u} : merchants[m] = name
       THEN UserCommit(CurrentUsers, LastUser("update_merchant", u, "merchant", "ValidationError", 0, FALSE))
       ELSE UserCommit([CurrentUsers EXCEPT !.merchants[u] = name],
                       LastUser("update_merchant", u, "merchant", "none", 0, FALSE))

UserNext ==
    \/ \E role \in ROLE_CHOICES : Register(role)
    \/ \E u \in UserIds, role \in ROLE_CHOICES : UpdateUser(u, role)
    \/ \E role \in ROLE_CHOICES : AdminAddUser(role)
    \/ \E u \in UserIds, role \in ROLE_CHOICES : AdminChangeUser(u, role)
    \/ \E u \in UserIds, name \in CompanyNames : UpdateMerchant(u, name)

UserSpec == UserInit /\ [][UserNext]_vars

\* ----------------------------------------------------------------- tokens
\* Two users with their profiles, no token issued yet.
TokenInit ==
    /\ inventories = << >>
    /\ listings = << >>
    /\ liveInv = << >>
    /\ nextId = 1
    /\ last = Idle
    /\ procs = << >>
    /\ userRole = (1 :> "customer" @@ 2 :> "merchant")
    /\ customers = {1}
    /\ merchants = (2 :> BlankName)
    /\ passwords = (1 :> 0 @@ 2 :> 0)
    /\ tokens = << >>
    /\ blacklist = {}
    /\ cache = {}
    /\ lastUser = UserIdle

\* The token pairs issued to user u.
OutstandingTokens(u) == {t \in DOMAIN tokens : tokens[t].user = u}

\* CustomTokenObtainPairView: a login with the current password issues a
\* refresh and an access token.
Login(u) ==
    /\ u \in DOMAIN userRole
    /\ Len(tokens) < MaxTokens
    /\ tokens' = Append(tokens, [user |-> u, issued |-> passwords[u]])
    /\ lastUser' = LastUser("login", u, userRole[u], "none", Len(tokens) + 1, FALSE)
    /\ UNCHANGED <<userRole, customers, merchants, passwords, blacklist, cache>>
    /\ UNCHANGED invVars

\* User.logout_all_sessions: the outstanding refresh tokens of the user are
\* blacklisted and the key user_logout_<id> is set without expiry.
logout_all_sessions(u) ==
    /\ blacklist' = blacklist \cup OutstandingTokens(u)
    /\ cache' = cache \cup {u}

\* PasswordChangeView.update: set_password and save, which calls
\* logout_all_sessions because the stored password differs; the tokens are
\* blacklisted once more; then the mail subject is built with `_`, a name
\* the module does not import.
ChangePassword(u) ==
    /\ u \in DOMAIN userRole
    /\ passwords[u] < MaxPasswordChanges
    /\ passwords' = [passwords EXCEPT ![u] = @ + 1]
    /\ logout_all_sessions(u)
    /\ lastUser' = LastUser("change_password", u, userRole[u], "NameError", 0, FALSE)
    /\ UNCHANGED <<userRole, customers, merchants, tokens>>
    /\ UNCHANGED invVars

\* CustomJWTAuthentication.authenticate of a request that carries the
\* access token of pair t, inside its lifetime: JWTAuthentication returns
\* the user, and the request is authenticated unless the user's logout key
\* is set.
Authenticate(t) ==
    /\ t \in DOMAIN tokens
    /\ lastUser' = LastUser("authenticate", tokens[t].user, userRole[tokens[t].user], "none",
                            t, tokens[t].user \notin cache)
    /\ UNCHANGED <<userRole, customers, merchants, passwords, tokens, blacklist, cache>>
    /\ UNCHANGED invVars

TokenNext ==
    \/ \E u \in UserIds : Login(u)
    \/ \E u \in UserIds : ChangePassword(u)
    \/ \E t \in 1..MaxTokens : Authenticate(t)

TokenSpec == TokenInit /\ [][TokenNext]_vars

\* ------------------------------------------------------------- properties
LiveInSlot(m, x) ==
    {r \in DOMAIN listings :
        inventories[listings[r].inventory] = m /\ listings[r].item = x /\ listings[r].is_live}

\* The request saved a listing marked live.
MarkLiveRequest == last.op \in {"create", "update"} /\ last.mark

\* Listings other than the saved one that were live, before the request,
\* for the merchant and item of the saved instance.
PriorLive ==
    {a \in last.pre_live :
        /\ a # last.pk
        /\ a \in DOMAIN listings
        /\ inventories[listings[a].inventory] = last.merchant
        /\ listings[a].item = last.item}

\* C1: after any sequence of requests, every merchant and item have at most
\* one listing with is_live = true, across all inventories of the merchant.
C1_UniqueLive ==
    \A m \in Merchants, x \in Items : Cardinality(LiveInSlot(m, x)) <= 1

\* C1 witness: a listing was saved marked live while a listing of another
\* inventory of the same merchant, for the same item, was live.
C1_Witness ==
    /\ MarkLiveRequest
    /\ \E a \in PriorLive : listings[a].inventory # last.inventory

\* C2: when listing A of (M, X) is live and another listing B of (M, X) is
\* saved with is_live = true, afterwards A is not live, B is live and B is
\* the only live listing of (M, X).
C2_Supersession ==
    (MarkLiveRequest /\ PriorLive # {}) =>
        /\ \A a \in PriorLive : ~listings[a].is_live
        /\ last.pk \in DOMAIN listings
        /\ LiveInSlot(last.merchant, last.item) = {last.pk}

\* C3: after a create, an update or a bulk upload touching merchant M,
\* LiveInventory(M) holds exactly M's listings with is_live = true.
C3_CacheSync ==
    (last.op \in {"create", "update", "inventory_admin_upload", "listing_admin_upload"}) =>
        LiOf(CurrentDb, last.merchant) = LiveListingsOf(CurrentDb, last.merchant)

\* C4: soft-deleting a live listing leaves it with is_active = false and
\* is_live = false and outside the LiveInventory of its merchant.
C4_SoftDelete ==
    (last.op = "soft_delete" /\ last.pk \in last.pre_live) =>
        /\ ~listings[last.pk].is_active
        /\ ~listings[last.pk].is_live
        /\ last.pk \notin LiOf(CurrentDb, last.merchant)

\* C5: once both concurrent mark-live saves have ended, the merchant and
\* item they address have at most one live listing.
C5_ConcurrentMarkLive ==
    (\A p \in DOMAIN procs : procs[p].pc = "done") =>
        \A m \in Merchants, x \in Items : Cardinality(LiveInSlot(m, x)) <= 1

\* C5 witness: both saves wrote their row (neither was stopped before its
\* write) for listings in two inventories, and both have ended.
C5_Witness ==
    /\ DOMAIN procs = ProcIds
    /\ \A p \in ProcIds : procs[p].pc = "done" /\ procs[p].exc = "NameError"
                          /\ procs[p].old = 0
    /\ procs[1].inst.inventory # procs[2].inst.inventory

\* C6: a mark-live save that fails at the demotion or at the activation has
\* no effect: the listings that were live for the merchant and item are
\* still live (and the saved listing is not).
C6_FailureAtomicity ==
    (MarkLiveRequest /\ last.exc # "none"
       /\ ~(last.pk \in DOMAIN listings /\ listings[last.pk].is_live)) =>
        \A a \in PriorLive : listings[a].is_live

\* C7: right after resync(M), LiveInventory(M) is exactly the set of M's
\* listings with is_live = true.
C7_ResyncExact ==
    (last.op = "resync") => liveInv[last.merchant] = LiveListingsOf(CurrentDb, last.merchant)

\* C7 witness: a resync that found members that were not live and dropped them.
C7_Witness ==
    /\ last.op = "resync"
    /\ last.pre_li # liveInv[last.merchant]
    /\ liveInv[last.merchant] # {}

\* C8: a resync(M) that directly follows a resync(M) changes neither
\* LiveInventory nor any Listing row, and no resync changes a Listing row.
C8_ResyncIdempotent ==
    [][\A m \in Merchants :
          Resync(m) =>
             /\ listings' = listings
             /\ (last.op = "resync" /\ last.merchant = m) => liveInv' = liveInv]_vars

\* C8 witness: a second resync in a row of a LiveInventory that has a member.
C8_Witness ==
    /\ last.op = "resync"
    /\ last.again
    /\ liveInv[last.merchant] # {}

UploadRequest == last.op \in {"inventory_admin_upload", "listing_admin_upload"}

\* C9: in a bulk upload with a row whose item does not resolve, that row is
\* an error, the batch is not aborted, and every valid row is persisted and
\* counted as created or updated.
C9_BulkPartialFailure ==
    (UploadRequest /\ last.bulk.unresolvable > 0) =>
        /\ last.exc = "none"
        /\ last.bulk.errors >= last.bulk.unresolvable
        /\ last.bulk.created + last.bulk.updated = last.bulk.valid
        /\ last.bulk.missing = 0

\* C10: in a bulk upload a failing row, whatever the failure, goes to the
\* error list and does not stop the batch: the request returns its counts,
\* with at least one error per failing row.
C10_PerRowIsolation ==
    (UploadRequest /\ last.bulk.rows > last.bulk.valid) =>
        /\ last.exc = "none"
        /\ last.bulk.errors >= last.bulk.rows - last.bulk.valid

\* C11: a listing created without an is_live flag is stored with is_live =
\* false, is not a member of LiveInventory, and its creation demotes no
\* listing that was live.
C11_DefaultNotLive ==
    (last.op = "create_default" /\ last.pk \in DOMAIN listings) =>
        /\ ~listings[last.pk].is_live
        /\ last.pk \notin LiOf(CurrentDb, last.merchant)
        /\ \A a \in last.pre_live : a \in DOMAIN listings => listings[a].is_live

\* Listing pk is stored live before the step and stored not live after it.
TurnsNotLive(pk) ==
    /\ pk \in DOMAIN listings /\ listings[pk].is_live
    /\ pk \in DOMAIN listings' /\ ~listings'[pk].is_live

\* The request of the step is a soft delete of pk, a save of pk with
\* is_live = false, or a save marked live of a different listing of the
\* merchant and item of pk.
AllowedDemotion(pk) ==
    \/ last'.op = "soft_delete" /\ last'.pk = pk
    \/ last'.op = "update" /\ ~last'.mark /\ last'.pk = pk
    \/ /\ last'.op \in {"create", "create_default", "update"}
       /\ last'.mark
       /\ last'.pk # pk
       /\ last'.merchant = inventories[listings[pk].inventory]
       /\ last'.item = listings[pk].item

\* C12: a stored listing goes from live to not live only in a step that is
\* its own soft delete, its own save with is_live = false, or the save,
\* marked live, of a different listing of the same merchant and item.
C12_LiveStateMachine ==
    [][\A pk \in 1..MaxListings : TurnsNotLive(pk) => AllowedDemotion(pk)]_vars

\* C13: saving a listing that was live with is_live = false succeeds, the
\* listing is stored not live and is no longer a member of LiveInventory of
\* its merchant, whose other members are the same as before.
C13_ExplicitUnmark ==
    (last.op = "update" /\ ~last.mark /\ last.pk \in last.pre_live) =>
        /\ last.exc = "none"
        /\ ~listings[last.pk].is_live
        /\ LiOf(CurrentDb, last.merchant) = last.pre_li \ {last.pk}

\* The listings a bulk delete removed that were live before it.
DeletedLive == last.pre_live \ DOMAIN listings

\* C14: after a bulk delete that removed a live listing, LiveInventory of
\* the merchant holds no deleted listing and is exactly the merchant's
\* remaining live listings; every row whose item does not resolve is
\* counted as not found.
C14_HardDelete ==
    (last.op = "bulk_delete" /\ last.exc = "none") =>
        /\ last.bulk.errors = last.bulk.unresolvable
        /\ DeletedLive # {} =>
              /\ LiOf(CurrentDb, last.merchant) \cap DeletedLive = {}
              /\ LiOf(CurrentDb, last.merchant) = LiveListingsOf(CurrentDb, last.merchant)

\* C15: a create request for an inventory whose merchant is not the acting
\* user is answered with a not-authorized error (403) and changes neither
\* the Listing table nor any LiveInventory.
C15_NotOwnerCreate ==
    [][\A u \in Merchants, i \in InventoryIds, x \in Items, b \in BOOLEAN :
          (CreateListing(u, i, x, b) /\ inventories[i] # u) =>
              /\ ListingCreateStatus(last') = 403
              /\ listings' = listings
              /\ liveInv' = liveInv]_vars

\* C16: a soft-delete request by a user who is not the merchant of the
\* listing's inventory (and is no admin) fails, and the listing keeps its
\* is_active and is_live.
C16_SoftDeleteAuthorized ==
    (last.op = "soft_delete" /\ last.user # last.merchant) =>
        /\ listings[last.pk].is_active
        /\ listings[last.pk].is_live = (last.pk \in last.pre_live)

\* C17: the listings returned by the list / search endpoint and the
\* other_listings of a snap's listing-info are all stored with is_active =
\* true, whatever their is_live.
C17_InactiveHidden ==
    (last.op \in {"list", "listing_info"}) =>
        \A r \in last.result : r \in DOMAIN listings /\ listings[r].is_active

\* C17 witness: a search that matched a soft-deleted listing's item and
\* returned another listing.
C17_Witness ==
    /\ last.op = "list"
    /\ last.result # {}
    /\ \E r \in DOMAIN listings :
          ~listings[r].is_active /\ (last.item = NoSearch \/ listings[r].item = last.item)

\* C18: a listing create whose price is below zero, or whose promo start
\* is after its promo end, is rejected with a validation error and stores
\* no listing.
C18_InputValidation ==
    (last.op = "create_invalid") =>
        /\ last.exc = "ValidationError"
        /\ last.pk \notin DOMAIN listings

\* C19: an inventory and an item never have more than one listing: a
\* create or an upload for a pair that has a listing updates that listing.
C19_UpsertInPlace ==
    \A r1, r2 \in DOMAIN listings :
        (listings[r1].inventory = listings[r2].inventory /\ listings[r1].item = listings[r2].item)
            => r1 = r2

\* The listing that save p marks live is stored live.
StoredLive(p) == procs[p].pk \in DOMAIN listings /\ listings[procs[p].pk].is_live

\* C20: from the moment a mark-live save of B has found the live listing A
\* it replaces, every committed state shows the pair either as before (A
\* live, B not) or as after (B live, A not): never both not live, never
\* both live.
C20_FlipIsolation ==
    \A p \in DOMAIN procs :
        procs[p].old # 0 => (listings[procs[p].old].is_live # StoredLive(p))

\* C21: the datastore never holds, in any committed state, two different
\* listings with is_live = true of one merchant and one item, whether they
\* are in one inventory of the merchant or in two: a write that would leave
\* such a pair is rejected by the constraint.
C21_StoreLevelUnique ==
    \A r1, r2 \in DOMAIN listings :
        (/\ listings[r1].is_live /\ listings[r2].is_live
         /\ listings[r1].item = listings[r2].item
         /\ inventories[listings[r1].inventory] = inventories[listings[r2].inventory])
            => r1 = r2

\* C22: once two concurrent saves, each with its update of LiveInventory,
\* have both ended, LiveInventory of the merchant is exactly the set of the
\* merchant's listings with is_live = true.
C22_ResyncVersusWrites ==
    (\A p \in DOMAIN procs : procs[p].pc = "done") =>
        \A m \in Merchants : LiOf(CurrentDb, m) = LiveListingsOf(CurrentDb, m)

\* C23: during an admin inventory bulk upload the LiveInventory of the
\* inventory's merchant is updated once when the batch has a valid row, and
\* not at all otherwise: once per batch, never once per row.
C23_BatchedResync ==
    (last.op = "inventory_admin_upload") =>
        last.bulk.li_updates = (IF last.bulk.valid > 0 THEN 1 ELSE 0)

\* C24: after the soft delete of an item every listing of the item has
\* is_active = false and is_live = false and is a member of no LiveInventory.
C24_ItemSoftDeleteCascade ==
    (last.op = "item_soft_delete") =>
        \A r \in DOMAIN listings :
            listings[r].item = last.item =>
                /\ ~listings[r].is_active
                /\ ~listings[r].is_live
                /\ \A m \in DOMAIN liveInv : r \notin liveInv[m]

\* C25: saving a stored live listing again with is_live = true, when no
\* other listing of its merchant and item is live, leaves it stored live
\* and a member of LiveInventory of its merchant.
C25_ResaveHarmless ==
    (last.op = "update" /\ last.mark /\ last.pk \in last.pre_live /\ PriorLive = {}) =>
        /\ listings[last.pk].is_live
        /\ last.pk \in LiOf(CurrentDb, last.merchant)

\* C26: a create or update request, which saves a listing with valid
\* fields in an existing inventory for an existing item, ends without an
\* exception of Listing.save, whether the listing is marked live or not.
C26_SaveCompletes ==
    (last.op \in {"create", "update"}) => last.exc = "none"

\* The listings of the saved instance's merchant and item that were live
\* before the request, the saved one included.
LiveBefore ==
    {a \in last.pre_live :
        /\ a \in DOMAIN listings
        /\ inventories[listings[a].inventory] = last.merchant
        /\ listings[a].item = last.item}

C28_BulkAccounting ==
    (last.op = "inventory_admin_upload") =>
        /\ last.bulk.created + last.bulk.updated + last.bulk.errors = last.bulk.rows
        /\ last.bulk.created + last.bulk.updated <= last.bulk.valid - last.bulk.missing

\* C28 witness: an upload of two rows, one valid and one whose item does
\* not resolve.
C28_Witness ==
    /\ last.op = "inventory_admin_upload"
    /\ last.bulk.rows = 2
    /\ last.bulk.valid = 1
    /\ last.bulk.unresolvable = 1

\* C29: every user with role customer has a Customer profile and no
\* Merchant profile, every user with role merchant has a Merchant profile
\* and no Customer profile, and the user of a request that creates a user
\* or changes a role is stored afterwards unless the request was rolled back.
C29_RoleProfileConsistency ==
    /\ \A u \in DOMAIN userRole :
          /\ (userRole[u] = "customer") => (u \in customers /\ u \notin DOMAIN merchants)
          /\ (userRole[u] = "merchant") => (u \in DOMAIN merchants /\ u \notin customers)
    /\ (lastUser.op \in {"update_user", "admin_change"}) => lastUser.user \in DOMAIN userRole

\* C30: an access token issued before the user's latest password change is
\* rejected by CustomJWTAuthentication, and one issued by a login after the
\* latest change is accepted.
C30_ForcedLogoutBounded ==
    (lastUser.op = "authenticate") =>
        /\ (tokens[lastUser.token].issued < passwords[lastUser.user]) => ~lastUser.accepted
        /\ (tokens[lastUser.token].issued = passwords[lastUser.user]
              /\ passwords[lastUser.user] > 0) => lastUser.accepted

====
